---- MODULE Spec2Model ----
(***************************************************************************)
(* A model of pretiac's request handling layer (src/pretiac/base.py), of   *)
(* the construction of its client (src/pretiac/client.py) and of the event *)
(* subscription and the actions built on it (src/pretiac/raw_client.py).   *)
(*                                                                         *)
(* Python's Optional[bool] is modelled by the three strings "None", "True" *)
(* and "False".  A response body is a text; json() turns a text into a     *)
(* value.  The bodies enumerated here are JSON texts, as the Icinga2 API   *)
(* answers requests that carry "Accept: application/json".                 *)
(*                                                                         *)
(* A byte of an event stream is a one-character string and a message is a  *)
(* sequence of bytes; a decoded message is a sequence of characters.       *)
(***************************************************************************)
EXTENDS Integers, Sequences, FiniteSets

VARIABLES
    construction,  \* how Client.__init__ ended
    client,        \* the Client the request handler was built with
    call,          \* the arguments of the latest _request call
    sent,          \* the HTTP request the latest _request call sent
    posts,         \* how many HTTP requests the latest operation sent
    response,      \* the requests.Response of the latest _request call
    session,       \* the requests.Session created by the latest _request call
    outcome,       \* how the latest _request call ended
    parsed,        \* whether the latest _request call evaluated response.json()
    result,        \* the value the latest _request call returned
    exception,     \* the exception the latest operation raised
    invocation,    \* the arguments of the latest process_check_result call
    normalization, \* the latest normalize_state call: its argument and its end
    operation,     \* the latest call of an endpoint method: arguments and end
    subscription   \* per subscription: generator, connection and the bytes read

vars ==
    <<construction, client, call, sent, posts, response, session, outcome,
      parsed, result, exception, invocation, normalization, operation,
      subscription>>

-----------------------------------------------------------------------------
(* Bounds of the model *)

\* the most bytes one subscription reads from its connection
MaxRead == 5

\* the most bytes two subscriptions that run side by side read together
MaxReadBoth == 2

-----------------------------------------------------------------------------
(* Values *)

OptionalBool == {"None", "True", "False"}

\* status codes around the two ends of the success range, and two errors
StatusCodes == {199, 200, 204, 299, 300, 404, 500}

BodyEmptyResults == "{\"results\":[]}"
BodyCreated == "{\"results\":[{\"code\":200,\"status\":\"Object was created\"}]}"
BodyNotFound == "{\"error\":404,\"status\":\"No objects found.\"}"

Bodies == {BodyEmptyResults, BodyCreated, BodyNotFound}

\* response.json(): the parsed value of a body text
json(text) ==
    CASE text = BodyEmptyResults -> [results |-> <<>>]
      [] text = BodyCreated ->
            [results |-> <<[code |-> 200, status |-> "Object was created"]>>]
      [] text = BodyNotFound -> [error |-> 404, status |-> "No objects found."]

\* the url paths of two calls: the endpoint root and a list of hosts
UrlPaths == {"", "hosts"}

\* urljoin(base, url_path) for a base without a path and a relative path
urljoin(base, url_path) ==
    IF url_path = "" THEN base ELSE base \o "/" \o url_path

\* bool(v) of an Optional[str]: None and the empty string are false
Truthy(v) == v \notin {"None", ""}

\* Python's "a or b" on two Optional[str]
Or(a, b) == IF Truthy(a) THEN a ELSE b

\* the logical verbs of RequestMethod, and one written in lower case
Methods == {"GET", "OPTIONS", "HEAD", "POST", "PUT", "PATCH", "DELETE", "get"}

\* str.upper() on Methods
upper(method) == IF method = "get" THEN "GET" ELSE method

\* A payload is None or a dict; a dict is the set of its (key, value) items.
NonePayload == [py |-> "None", items |-> {}]
Dict(items) == [py |-> "dict", items |-> items]

\* bool(payload): None and the empty dict are false
TruthyPayload(payload) == payload.py = "dict" /\ payload.items # {}

\* assemble_payload(types=..., queue=..., filter=None, filter_vars=None) of a
\* subscription to check results
SubscribePayload ==
    Dict({<<"types", <<"CheckResult">> >>, <<"queue", "monitor">>})

\* the payloads of three calls: none, an empty one and a filter by type
Payloads == {NonePayload, Dict({}), Dict({<<"type", "Host">>})}

\* pretiac.__version__, a text this model does not look into
Version == "x.y.z"

\* the values a setting of the client is given: in the call of the
\* constructor (None, the empty string or a value) and in the config file
UrlArgs == {"None", "", "https://localhost:5665"}
UrlFile == {"None", "https://localhost:5665"}
UsernameArgs == {"None", "", "apiuser"}
UsernameFile == {"None", "apiuser"}
PasswordArgs == {"None", "", "password"}
PasswordFile == {"None", "password"}
CertificateArgs == {"None", "", "icinga.crt"}
CertificateFile == {"None", "file.crt"}
KeyArgs == {"None", "icinga.key"}
KeyFile == {"None", "icinga.key"}
CaCertificateArgs == {"None", "", "ca.crt"}
CaCertificateFile == {"None", "ca.crt"}
TimeoutArgs == {"None", "30"}
TimeoutFile == {"None", "30"}

ClientArgs ==
    [url : UrlArgs, username : UsernameArgs, password : PasswordArgs,
     certificate : CertificateArgs, key : KeyArgs,
     ca_certificate : CaCertificateArgs, timeout : TimeoutArgs]

ClientConfigFile ==
    [url : UrlFile, username : UsernameFile, password : PasswordFile,
     certificate : CertificateFile, key : KeyFile,
     ca_certificate : CaCertificateFile, timeout : TimeoutFile]

\* The attributes of a client that the request handler reads.  The handler
\* reads the user name as client.api_user; Client.__init__ stores it as
\* username: the model keeps one attribute, under the handler's name.
NoClient ==
    [url |-> "None", api_user |-> "None", password |-> "None",
     certificate |-> "None", key |-> "None", ca_certificate |-> "None",
     timeout |-> "None", version |-> "None", suppress_exception |-> "None"]

\* the client of the tests: a url, a user name and a password
DefaultClient ==
    [NoClient EXCEPT !.url = "https://localhost:5665", !.api_user = "apiuser",
                     !.password = "password", !.version = Version]

NoCall ==
    [method |-> "None", url_path |-> "", payload |-> NonePayload,
     stream |-> FALSE, suppress_exception |-> "None"]

\* session.cert is None, a str or a tuple; session.auth is None or a tuple
NoCert == [py |-> "None", files |-> <<>>]
NoAuth == <<>>

\* a keyword argument that session.post is not given
Absent == [py |-> "absent", items |-> {}]

NoSent ==
    [http_method |-> "none", url |-> "", cert |-> NoCert, auth |-> NoAuth,
     headers |-> {}, json |-> Absent, verify |-> "absent", stream |-> "absent",
     timeout |-> "absent"]
NoResponse == [url |-> "", status_code |-> 0, text |-> ""]
NoResult == [kind |-> "none"]
NoException == [type |-> "none"]

-----------------------------------------------------------------------------
(* Client.__init__ *)

\* a plausible slip: the credentials are not looked at
InitUrlOnly(args, file) ==
    LET url == Or(args.url, file.url)
        attributes ==
            [NoClient EXCEPT
                !.url = url,
                !.api_user = Or(args.username, file.username),
                !.password = Or(args.password, file.password),
                !.certificate = Or(args.certificate, file.certificate),
                !.key = Or(args.key, file.key),
                !.ca_certificate = Or(args.ca_certificate, file.ca_certificate),
                !.timeout = Or(args.timeout, file.timeout),
                !.version = Version]
    IN IF ~Truthy(url)
       THEN [raised |-> "No \"url\" defined.", client |-> attributes]
       ELSE [raised |-> "", client |-> attributes]

\* Client.__init__: every setting is the argument or else the value of the
\* config file; then the two checks.  The attributes are assigned before the
\* checks, so the object has them also when a check raises.
__init__(args, file) ==
    LET url == Or(args.url, file.url)
        username == Or(args.username, file.username)
        password == Or(args.password, file.password)
        certificate == Or(args.certificate, file.certificate)
        attributes ==
            [NoClient EXCEPT
                !.url = url,
                !.api_user = username,
                !.password = password,
                !.certificate = certificate,
                !.key = Or(args.key, file.key),
                !.ca_certificate = Or(args.ca_certificate, file.ca_certificate),
                !.timeout = Or(args.timeout, file.timeout),
                !.version = Version]
    IN IF ~Truthy(url)
       THEN [raised |-> "No \"url\" defined.", client |-> attributes]
       ELSE IF ~Truthy(username) /\ ~Truthy(password) /\ ~Truthy(certificate)
       THEN [raised |-> "Neither username/password nor certificate defined.",
             client |-> attributes]
       ELSE [raised |-> "", client |-> attributes]

-----------------------------------------------------------------------------
(* Base._throw_exception and Base._request *)

\* a plausible slip: truthiness tests instead of isinstance(..., bool), so
\* that an explicit False is taken for "unset"
ThrowExceptionTruthy(suppress_exception) ==
    IF suppress_exception = "True" THEN FALSE
    ELSE IF client.suppress_exception = "True" THEN FALSE
    ELSE TRUE

\* a plausible slip: the per-call flag is not consulted
ThrowExceptionClientOnly(suppress_exception) ==
    IF client.suppress_exception \in {"True", "False"}
    THEN client.suppress_exception = "False"
    ELSE TRUE

\* a plausible slip: the fall-through default suppresses
ThrowExceptionDefaultQuiet(suppress_exception) ==
    IF suppress_exception \in {"True", "False"} THEN suppress_exception = "False"
    ELSE IF client.suppress_exception \in {"True", "False"}
    THEN client.suppress_exception = "False"
    ELSE FALSE

_throw_exception(suppress_exception) ==
    IF suppress_exception \in {"True", "False"}
    THEN suppress_exception = "False"                 \* not suppress_exception
    ELSE IF client.suppress_exception \in {"True", "False"}
    THEN client.suppress_exception = "False"          \* not client.suppress_exception
    ELSE TRUE

\* a plausible slip: independent tests, so that basic auth is attached next
\* to a certificate
CreateSessionEveryCredential(method) ==
    [cert |-> IF Truthy(client.certificate) /\ Truthy(client.key)
              THEN [py |-> "tuple", files |-> <<client.certificate, client.key>>]
              ELSE IF Truthy(client.certificate)
              THEN [py |-> "str", files |-> <<client.certificate>>]
              ELSE NoCert,
     auth |-> IF Truthy(client.api_user) /\ Truthy(client.password)
              THEN <<client.api_user, client.password>>
              ELSE NoAuth,
     headers |-> {<<"User-Agent", "Python-pretiac/" \o client.version>>,
                  <<"X-HTTP-Method-Override", upper(method)>>,
                  <<"Accept", "application/json">>}]

\* a plausible slip: the verb is put into the header as it was given
CreateSessionVerbAsGiven(method) ==
    [cert |-> IF Truthy(client.certificate) /\ Truthy(client.key)
              THEN [py |-> "tuple", files |-> <<client.certificate, client.key>>]
              ELSE IF Truthy(client.certificate)
              THEN [py |-> "str", files |-> <<client.certificate>>]
              ELSE NoCert,
     auth |-> IF Truthy(client.certificate) THEN NoAuth
              ELSE IF Truthy(client.api_user) /\ Truthy(client.password)
              THEN <<client.api_user, client.password>>
              ELSE NoAuth,
     headers |-> {<<"User-Agent", "Python-pretiac/" \o client.version>>,
                  <<"X-HTTP-Method-Override", method>>,
                  <<"Accept", "application/json">>}]

\* _create_session: a new session with the first credentials that are set,
\* and headers that replace the defaults of requests
_create_session(method) ==
    [cert |-> IF Truthy(client.certificate) /\ Truthy(client.key)
              THEN [py |-> "tuple", files |-> <<client.certificate, client.key>>]
              ELSE IF Truthy(client.certificate)
              THEN [py |-> "str", files |-> <<client.certificate>>]
              ELSE NoCert,
     auth |-> IF Truthy(client.certificate) THEN NoAuth
              ELSE IF Truthy(client.api_user) /\ Truthy(client.password)
              THEN <<client.api_user, client.password>>
              ELSE NoAuth,
     headers |-> {<<"User-Agent", "Python-pretiac/" \o client.version>>,
                  <<"X-HTTP-Method-Override", upper(method)>>,
                  <<"Accept", "application/json">>}]

\* a plausible slip: without a CA certificate the default of requests, which
\* verifies, is left in place
RequestArgsVerifyByDefault(request_url, payload, stream) ==
    [url |-> request_url,
     json |-> IF TruthyPayload(payload) THEN payload ELSE Absent,
     verify |-> IF Truthy(client.ca_certificate)
                THEN client.ca_certificate ELSE "absent",
     stream |-> IF stream THEN "True" ELSE "absent",
     \* no statement of _request sets request_args["timeout"]
     timeout |-> "absent"]

\* request_args of _request: the keyword arguments of session.post
request_args(request_url, payload, stream) ==
    [url |-> request_url,
     json |-> IF TruthyPayload(payload) THEN payload ELSE Absent,
     verify |-> IF Truthy(client.ca_certificate)
                THEN client.ca_certificate ELSE "False",
     stream |-> IF stream THEN "True" ELSE "absent",
     \* no statement of _request sets request_args["timeout"]
     timeout |-> "absent"]

\* session.post(**request_args): the HTTP request that goes out
post(sess, args) ==
    [http_method |-> "POST", url |-> args.url, cert |-> sess.cert,
     auth |-> sess.auth, headers |-> sess.headers, json |-> args.json,
     verify |-> args.verify, stream |-> args.stream,
     timeout |-> args.timeout]

\* a plausible slip: an exclusive lower end of the success range
StatusOkExclusive(status_code) == 200 < status_code /\ status_code <= 299

\* 200 <= response.status_code <= 299
StatusOk(status_code) == 200 <= status_code /\ status_code <= 299

\* a plausible slip: the session is closed whatever the stream flag
SessionAfterPostAlwaysClosed(stream) == "closed"

\* "if not stream: session.close()" on the session _create_session opened
SessionAfterPost(stream) == IF ~stream THEN "closed" ELSE "open"

\* a plausible variant: a request the server failed on is sent once more
RequestRetried(stream, suppress_exception, resp) ==
    IF _throw_exception(suppress_exception) /\ ~StatusOk(resp.status_code)
    THEN [outcome |-> "raised",
          posts |-> IF resp.status_code >= 500 THEN 2 ELSE 1,
          session |-> SessionAfterPost(stream),
          parsed |-> TRUE,
          result |-> NoResult,
          exception |-> [type |-> "PretiacRequestException",
                         error |-> [url |-> resp.url,
                                    status_code |-> resp.status_code,
                                    text |-> resp.text],
                         response |-> json(resp.text)]]
    ELSE [outcome |-> "returned",
          posts |-> IF resp.status_code >= 500 THEN 2 ELSE 1,
          session |-> SessionAfterPost(stream),
          parsed |-> ~stream,
          result |-> IF stream
                     THEN [kind |-> "response", status_code |-> resp.status_code]
                     ELSE [kind |-> "json", value |-> json(resp.text)],
          exception |-> NoException]

\* The whole of _request once session.post has answered with resp: what it
\* leaves behind (the session), how many times it has posted, and how it ends
\* (a value or an exception).
_request(stream, suppress_exception, resp) ==
    IF _throw_exception(suppress_exception) /\ ~StatusOk(resp.status_code)
    THEN [outcome |-> "raised",
          posts |-> 1,
          session |-> SessionAfterPost(stream),
          parsed |-> TRUE,
          result |-> NoResult,
          exception |-> [type |-> "PretiacRequestException",
                         \* 'Request "{}" failed with status {}: {}'
                         error |-> [url |-> resp.url,
                                    status_code |-> resp.status_code,
                                    text |-> resp.text],
                         response |-> json(resp.text)]]
    ELSE [outcome |-> "returned",
          posts |-> 1,
          session |-> SessionAfterPost(stream),
          parsed |-> ~stream,
          result |-> IF stream
                     THEN [kind |-> "response", status_code |-> resp.status_code]
                     ELSE [kind |-> "json", value |-> json(resp.text)],
          exception |-> NoException]

-----------------------------------------------------------------------------
(* Base._get_message_from_stream *)

NL == "\n"

\* the bytes a connection may deliver: the newline, the backslash, a letter
\* that forms an escape after a backslash, and a character that forms none
Byte == {NL, "\\", "n", "{"}

\* bytes.decode("unicode_escape") raises UnicodeDecodeError when a backslash
\* ends the input; every other input over Byte decodes
RECURSIVE Decodable(_)
Decodable(bytes) ==
    IF bytes = <<>> THEN TRUE
    ELSE IF Head(bytes) # "\\" THEN Decodable(Tail(bytes))
    ELSE IF Len(bytes) = 1 THEN FALSE
    ELSE Decodable(Tail(Tail(bytes)))

\* bytes.decode("unicode_escape") of a decodable input over Byte: \n is the
\* newline character, \\ one backslash, an unknown escape stays as it is
RECURSIVE unicode_escape(_)
unicode_escape(bytes) ==
    IF bytes = <<>> THEN <<>>
    ELSE IF Head(bytes) # "\\"
    THEN <<Head(bytes)>> \o unicode_escape(Tail(bytes))
    ELSE IF Len(bytes) = 1 THEN <<>>
    ELSE (CASE bytes[2] = "n" -> <<NL>>
            [] bytes[2] = "\\" -> <<"\\">>
            [] OTHER -> <<"\\", bytes[2]>>)
         \o unicode_escape(Tail(Tail(bytes)))

Sub == {1, 2}

\* gen:      "none" no generator, "created" subscribe() was called and its
\*           body has not started, "running" the caller is inside next() and
\*           the body waits for iter_content, "suspended" the body stands at
\*           its yield, "finished" the body has ended
\* ended:    how the body ended: "StopIteration" (it returned), the name of
\*           the exception that left it, or "GeneratorExit" (it was closed)
\* conn:     the session and connection the subscription's _request made:
\*           "none", "open" or "closed"
\* link:     what the transport has to report: "up", "ended" (iter_content
\*           will be exhausted) or "failed" (iter_content will raise)
\* message:  the local variable message of _get_message_from_stream
\* read:     every byte iter_content has handed over, in order
\* yielded:  every element the caller has been given, in order
\* consumer: "active", or "gone" once the caller has walked away
\* requests: how many HTTP requests were sent for the subscription
\* asked_after_end: whether next() was called after the body had ended
NoSubscription ==
    [gen |-> "none", ended |-> "no", conn |-> "none", link |-> "up",
     status_code |-> 0, message |-> <<>>, read |-> <<>>, yielded |-> <<>>,
     consumer |-> "active", requests |-> 0, asked_after_end |-> FALSE]

\* the first next(): subscribe's body runs _request(..., stream=True), whose
\* end is given, and then enters _get_message_from_stream up to its loop
StartBody(st, resp, end) ==
    IF end.outcome = "raised"
    THEN [st EXCEPT !.gen = "finished", !.ended = end.exception.type,
                    !.conn = end.session, !.status_code = resp.status_code,
                    !.requests = @ + end.posts]
    ELSE [st EXCEPT !.gen = "running", !.conn = end.session,
                    !.status_code = resp.status_code, !.message = <<>>,
                    !.requests = @ + end.posts]

\* a plausible slip: the buffer is not emptied after a message was yielded
ResumeBodyKeepBuffer(st) == [st EXCEPT !.gen = "running"]

\* a later next(): the body resumes after its yield with message = b""
ResumeBody(st) == [st EXCEPT !.gen = "running", !.message = <<>>]

\* a plausible slip: the buffer is kept on the handler, which all
\* subscriptions of a client share, here as the buffer of the first of them
LoopBodyHandlerBuffer(st, char) ==
    LET st1 == [st EXCEPT !.read = Append(@, char)]
        buffer == subscription[1].message
    IN IF char = NL
       THEN IF Decodable(buffer)
            THEN [st1 EXCEPT !.gen = "suspended",
                             !.yielded = Append(@, unicode_escape(buffer))]
            ELSE [st1 EXCEPT !.gen = "finished", !.ended = "UnicodeDecodeError"]
       ELSE [st1 EXCEPT !.message = Append(@, char)]

\* one turn of the loop on the byte char
LoopBody(st, char) ==
    LET st1 == [st EXCEPT !.read = Append(@, char)]
    IN IF char = NL
       THEN IF Decodable(st.message)
            THEN [st1 EXCEPT !.gen = "suspended",
                             !.yielded = Append(@, unicode_escape(st.message))]
            ELSE [st1 EXCEPT !.gen = "finished", !.ended = "UnicodeDecodeError"]
       ELSE [st1 EXCEPT !.message = Append(@, char)]

\* a plausible variant: what is left in the buffer is yielded at the end
StreamExhaustedFlush(st) ==
    [st EXCEPT !.gen = "finished", !.ended = "StopIteration",
               !.yielded = IF st.message # <<>> /\ Decodable(st.message)
                           THEN Append(@, unicode_escape(st.message)) ELSE @]

\* iter_content is exhausted: the loop ends and the body returns
StreamExhausted(st) == [st EXCEPT !.gen = "finished", !.ended = "StopIteration"]

\* a plausible slip: the loop is wrapped in a handler that ends the body
StreamRaisedSwallowed(st) == [st EXCEPT !.gen = "finished", !.ended = "StopIteration"]

\* iter_content raises: nothing handles it, the exception leaves the body
StreamRaised(st) == [st EXCEPT !.gen = "finished", !.ended = "ConnectionError"]

\* generator.close(): GeneratorExit at the yield (or before the body began);
\* neither generator has a finally or a with block, so nothing else runs
CloseGenerator(st) == [st EXCEPT !.gen = "finished", !.ended = "GeneratorExit"]

-----------------------------------------------------------------------------
(* normalize_state and ActionsUrlEndpoint.process_check_result *)

\* A value passed as a state: py is its Python type, name the member of an
\* enum or the text of a str, v the number of a member, an int, a bool or a
\* float.
Member(py, name, v) == [py |-> py, name |-> name, v |-> v]
IntOf(n) == [py |-> "int", name |-> "", v |-> n]

HostState == {Member("HostState", "UP", 0), Member("HostState", "DOWN", 1)}

ServiceState ==
    {Member("ServiceState", "OK", 0), Member("ServiceState", "WARNING", 1),
     Member("ServiceState", "CRITICAL", 2), Member("ServiceState", "UNKNOWN", 3)}

\* values that are not states by their type: two strings, a float and None
NotStates ==
    {Member("str", "CRITICAL", 0), Member("str", "2", 0),
     Member("float", "", 1), Member("NoneType", "None", 0)}

Bools == {Member("bool", "False", 0), Member("bool", "True", 1)}

\* the arguments of normalize_state: the members, many ints on both sides of
\* 0..3, the bools and the values of other types
States ==
    HostState \cup ServiceState \cup {IntOf(n) : n \in -48..51}
    \cup Bools \cup NotStates

\* the exit_status of a check result: as States, with fewer ints
ExitStatuses ==
    HostState \cup ServiceState \cup {IntOf(n) : n \in -1..5}
    \cup Bools \cup NotStates

\* isinstance(state, int): a bool is an int
IsInt(state) == state.py \in {"int", "bool"}

\* a plausible slip: the upper end of the range is left open
NormalizeStateNoUpperEnd(state) ==
    IF state.py \in {"ServiceState", "HostState"}
    THEN [raised |-> "", value |-> IntOf(state.v)]
    ELSE IF IsInt(state) /\ 0 <= state.v
    THEN [raised |-> "", value |-> state]
    ELSE [raised |-> "invalid", value |-> state]

\* normalize_state: the value of a member, an int of 0..3 as it is, or a
\* PretiacException
normalize_state(state) ==
    IF state.py \in {"ServiceState", "HostState"}
    THEN [raised |-> "", value |-> IntOf(state.v)]
    ELSE IF IsInt(state) /\ 0 <= state.v /\ state.v <= 3
    THEN [raised |-> "", value |-> state]
    ELSE [raised |-> "invalid", value |-> state]

NoNormalization ==
    [called |-> FALSE, state |-> IntOf(0),
     end |-> [raised |-> "", value |-> IntOf(0)]]

\* An argument that may be None is an empty sequence (None) or a sequence of
\* one value.  bool() of one: None is false; so are 0 and an empty list.
None == <<>>
Some(value) == <<value>>
TruthyNumber(arg) == arg # None /\ arg[1] # 0
TruthyList(arg) == arg # None /\ arg[1] # <<>>
TruthyText(arg) == arg # None /\ arg[1] # ""

\* The optional arguments of four calls: none; those of the example in the
\* docstring; all of them; some given with values that are false.
NoOptions ==
    [performance_data |-> None, check_command |-> None, check_source |-> None,
     execution_start |-> None, execution_end |-> None, ttl |-> None]

ExampleOptions ==
    [NoOptions EXCEPT
        !.performance_data = Some(<<"rta=5000.000000ms", "pl=100%;80;100;0">>),
        !.check_source = Some("python client")]

AllOptions ==
    [performance_data |-> Some(<<"pl=100%;80;100;0">>),
     check_command |-> Some(<<"check_ping", "-H", "myhost">>),
     check_source |-> Some("python client"),
     execution_start |-> Some(1700000000), execution_end |-> Some(1700000001),
     ttl |-> Some(60)]

FalseOptions ==
    [NoOptions EXCEPT
        !.performance_data = Some(<<>>), !.check_source = Some(""),
        !.execution_start = Some(0), !.ttl = Some(0)]

Options == {NoOptions, ExampleOptions, AllOptions, FalseOptions}

\* str.lower() on the two types
lower(type) ==
    CASE type = "Host" -> "host"
      [] type = "Service" -> "service"

\* the arguments of process_check_result
NoInvocation ==
    [called |-> FALSE, type |-> "", name |-> "None", exit_status |-> IntOf(0),
     plugin_output |-> "", filter |-> "None", filter_vars |-> NonePayload,
     options |-> NoOptions, suppress_exception |-> "None"]

\* a plausible slip: name and filter are not checked against each other
CheckResultErrorNotExclusive(a) ==
    IF ~Truthy(a.name) /\ ~Truthy(a.filter)
    THEN "name and filters is empty or none"
    ELSE IF a.type \notin {"Host", "Service"}
    THEN "type needs to be \"Host\" or \"Service\"."
    ELSE normalize_state(a.exit_status).raised

\* process_check_result up to its payload: the message of the
\* PretiacException it raises, or "" if it raises none
CheckResultError(a) ==
    IF ~Truthy(a.name) /\ ~Truthy(a.filter)
    THEN "name and filters is empty or none"
    ELSE IF Truthy(a.name) /\ (Truthy(a.filter) \/ TruthyPayload(a.filter_vars))
    THEN "name and filters are mutually exclusive"
    ELSE IF a.type \notin {"Host", "Service"}
    THEN "type needs to be \"Host\" or \"Service\"."
    ELSE normalize_state(a.exit_status).raised

\* the items the optional arguments add to the payload
OptionItems(a) ==
    (IF TruthyList(a.options.performance_data)
     THEN {<<"performance_data", a.options.performance_data[1]>>} ELSE {})
    \cup (IF TruthyList(a.options.check_command)
          THEN {<<"check_command", a.options.check_command[1]>>} ELSE {})
    \cup (IF TruthyText(a.options.check_source)
          THEN {<<"check_source", a.options.check_source[1]>>} ELSE {})
    \cup (IF TruthyNumber(a.options.execution_start)
          THEN {<<"execution_start", a.options.execution_start[1]>>} ELSE {})
    \cup (IF TruthyNumber(a.options.execution_end)
          THEN {<<"execution_end", a.options.execution_end[1]>>} ELSE {})
    \cup (IF TruthyNumber(a.options.ttl)
          THEN {<<"ttl", a.options.ttl[1]>>} ELSE {})
    \cup (IF Truthy(a.filter) THEN {<<"filter", a.filter>>} ELSE {})
    \cup (IF TruthyPayload(a.filter_vars)
          THEN {<<"filter_vars", a.filter_vars.items>>} ELSE {})

\* a plausible slip: the name is stored under the key "name"
CheckResultPayloadNameKey(a) ==
    Dict({<<"type", a.type>>,
          <<"exit_status", normalize_state(a.exit_status).value>>,
          <<"plugin_output", a.plugin_output>>}
         \cup (IF Truthy(a.name) THEN {<<"name", a.name>>} ELSE {})
         \cup OptionItems(a))

\* the payload of process_check_result
CheckResultPayload(a) ==
    Dict({<<"type", a.type>>,
          <<"exit_status", normalize_state(a.exit_status).value>>,
          <<"plugin_output", a.plugin_output>>}
         \cup (IF Truthy(a.name) THEN {<<lower(a.type), a.name>>} ELSE {})
         \cup OptionItems(a))

-----------------------------------------------------------------------------
(* ObjectsUrlEndpoint *)

NoOperation == [method |-> "none"]

ObjectTypes == {"Host", "Service"}

\* pluralize_to_lower_object_type_name on ObjectTypes
pluralize_to_lower_object_type_name(object_type) ==
    CASE object_type = "Host" -> "hosts"
      [] object_type = "Service" -> "services"

\* the names of four objects: one that needs no encoding, one with a space,
\* one with a slash and one with the "!" of a service name
Names == {"XXX", "my host", "a/b", "Host1!load"}

\* urllib.parse.quote(name, safe="") on Names
_normalize_name(name) ==
    CASE name = "XXX" -> "XXX"
      [] name = "my host" -> "my%20host"
      [] name = "a/b" -> "a%2Fb"
      [] name = "Host1!load" -> "Host1%21load"

\* joins is None, a bool or a list: the list here is ["host.name"]
Joins == {"None", "True", "False", "list"}

\* a plausible slip: the whole body is returned also when it has results
ListEndWholeBody(end) ==
    IF end.outcome = "raised"
    THEN [outcome |-> "raised", type |-> end.exception.type]
    ELSE [outcome |-> "returned", part |-> "body", value |-> end.result.value]

\* the end of list, given the end of its _request call: the exception goes
\* on to the caller; a body with the key "results" gives the value under
\* that key, any other body is returned whole
ListEnd(end) ==
    IF end.outcome = "raised"
    THEN [outcome |-> "raised", type |-> end.exception.type]
    ELSE IF "results" \in DOMAIN end.result.value
    THEN [outcome |-> "returned", part |-> "results",
          value |-> end.result.value.results]
    ELSE [outcome |-> "returned", part |-> "body", value |-> end.result.value]

\* the end of get, given the end of its list call: a body with the key
\* "error" gives None, a list of results its first element, and an empty
\* list has no first element
GetEnd(listed) ==
    IF listed.outcome = "raised" THEN listed
    ELSE IF listed.part = "body" /\ "error" \in DOMAIN listed.value
    THEN [outcome |-> "returned", part |-> "None", value |-> "None"]
    ELSE IF listed.part = "results" /\ listed.value # <<>>
    THEN [outcome |-> "returned", part |-> "first", value |-> listed.value[1]]
    ELSE [outcome |-> "raised",
          type |-> IF listed.part = "results" THEN "IndexError" ELSE "KeyError"]

\* the url path of list
ListUrlPath(object_type, name) ==
    IF Truthy(name)
    THEN pluralize_to_lower_object_type_name(object_type)
            \o "/" \o _normalize_name(name)
    ELSE pluralize_to_lower_object_type_name(object_type)

\* the payload of list
ListPayload(attrs, filters, filter_vars, joins) ==
    Dict((IF TruthyList(attrs) THEN {<<"attrs", attrs[1]>>} ELSE {})
         \cup (IF Truthy(filters) THEN {<<"filter", filters>>} ELSE {})
         \cup (IF TruthyPayload(filter_vars)
               THEN {<<"filter_vars", filter_vars>>} ELSE {})
         \cup (IF joins = "True" THEN {<<"all_joins", "1">>}
               ELSE IF joins = "list" THEN {<<"joins", <<"host.name">> >>}
               ELSE {}))

\* the payload of create
CreatePayload(templates, attrs) ==
    Dict((IF TruthyPayload(attrs) THEN {<<"attrs", attrs>>} ELSE {})
         \cup (IF TruthyList(templates)
               THEN {<<"templates", templates[1]>>} ELSE {}))

\* the payload of delete
DeletePayload(filters, filter_vars, cascade) ==
    Dict((IF Truthy(filters) THEN {<<"filter", filters>>} ELSE {})
         \cup (IF TruthyPayload(filter_vars)
               THEN {<<"filter_vars", filter_vars>>} ELSE {})
         \cup (IF cascade THEN {<<"cascade", 1>>} ELSE {}))

\* the url path of create
CreateUrlPath(object_type, name) ==
    pluralize_to_lower_object_type_name(object_type)
        \o "/" \o _normalize_name(name)

\* the url path of update
UpdateUrlPath(object_type, name) ==
    pluralize_to_lower_object_type_name(object_type) \o "/" \o name

\* the url path of delete
DeleteUrlPath(object_type, name) ==
    IF Truthy(name)
    THEN pluralize_to_lower_object_type_name(object_type)
            \o "/" \o _normalize_name(name)
    ELSE pluralize_to_lower_object_type_name(object_type)

-----------------------------------------------------------------------------
(* State and steps *)

\* a client that was constructed, with any default for suppress_exception
Init ==
    /\ construction = "constructed"
    /\ client \in {[DefaultClient EXCEPT !.suppress_exception = flag] :
                        flag \in OptionalBool}
    /\ call = NoCall
    /\ sent = NoSent
    /\ posts = 0
    /\ response = NoResponse
    /\ session = "none"
    /\ outcome = "none"
    /\ parsed = FALSE
    /\ result = NoResult
    /\ exception = NoException
    /\ invocation = NoInvocation
    /\ normalization = NoNormalization
    /\ operation = NoOperation
    /\ subscription = [s \in Sub |-> NoSubscription]

dispatcher ==
    <<call, sent, posts, response, session, outcome, parsed, result, exception>>

endpoint == <<invocation, normalization, operation>>

\* The calls of _request and their answers: a GET without payload with every
\* flag and every answer, and every verb and payload with two answers.
Exchanges ==
    [method : {"GET"}, url_path : UrlPaths, payload : {NonePayload},
     stream : BOOLEAN, suppress_exception : OptionalBool,
     status_code : StatusCodes, text : Bodies]
    \cup
    [method : Methods, url_path : UrlPaths, payload : Payloads,
     stream : BOOLEAN, suppress_exception : {"None"},
     status_code : {200, 500}, text : {BodyEmptyResults}]

\* What one call of _request does to the state: the request goes out, the
\* server answers with status_code and text, and the call ends.
Dispatch(method, url_path, payload, stream, suppress_exception, status_code, text) ==
    LET request_url == urljoin(client.url, url_path)
        resp == [url |-> request_url, status_code |-> status_code, text |-> text]
        end == _request(stream, suppress_exception, resp)
    IN /\ call' = [method |-> method, url_path |-> url_path,
                   payload |-> payload, stream |-> stream,
                   suppress_exception |-> suppress_exception]
       /\ sent' = post(_create_session(method),
                       request_args(request_url, payload, stream))
       /\ posts' = end.posts
       /\ response' = resp
       /\ session' = end.session
       /\ outcome' = end.outcome
       /\ parsed' = end.parsed
       /\ result' = end.result
       /\ exception' = end.exception

\* One call of _request: the caller picks the arguments, the server the
\* answer.
Request ==
    /\ construction = "constructed"
    /\ \E x \in Exchanges :
        Dispatch(x.method, x.url_path, x.payload, x.stream,
                 x.suppress_exception, x.status_code, x.text)
    /\ UNCHANGED <<endpoint, construction, client, subscription>>

Next == Request

Spec == Init /\ [][Next]_vars

\* normalize_state(state) is called
NormalizeState ==
    /\ \E state \in States :
        normalization' = [called |-> TRUE, state |-> state,
                          end |-> normalize_state(state)]
    /\ UNCHANGED <<invocation, operation, construction, client, dispatcher,
                   subscription>>

SpecState == Init /\ [][NormalizeState]_vars

\* The calls of process_check_result and their answers: every name, filter
\* and exit_status for two types, and every way of giving the optional
\* arguments of a call that passes the checks, with four answers.
CheckResults ==
    [called : {TRUE}, type : {"Service", "Comment"},
     name : {"None", "", "myhost!ping4"},
     exit_status : ExitStatuses, plugin_output : {"PING CRITICAL"},
     filter : {"None", "host.name==\"myhost\""},
     filter_vars : {NonePayload, Dict({<<"os", "Linux">>})},
     options : {NoOptions}, suppress_exception : {"None"},
     status_code : {200}, text : {BodyCreated}]
    \cup
    [called : {TRUE}, type : {"Host", "Service"},
     name : {"None", "myhost!ping4"},
     exit_status : {Member("ServiceState", "CRITICAL", 2), IntOf(1)},
     plugin_output : {"PING CRITICAL"},
     filter : {"None", "host.name==\"myhost\""},
     filter_vars : {NonePayload},
     options : Options, suppress_exception : {"None", "True"},
     status_code : {200, 500}, text : {BodyCreated}]

\* One call of process_check_result: a PretiacException before anything is
\* sent, or one call of _request with the payload.
ProcessCheckResult ==
    /\ construction = "constructed"
    /\ \E x \in CheckResults :
        LET a == [f \in DOMAIN NoInvocation |-> x[f]]
        IN /\ invocation' = a
           /\ IF CheckResultError(a) # ""
              THEN /\ call' = NoCall
                   /\ sent' = NoSent
                   /\ posts' = 0
                   /\ response' = NoResponse
                   /\ session' = "none"
                   /\ outcome' = "raised"
                   /\ parsed' = FALSE
                   /\ result' = NoResult
                   /\ exception' = [type |-> "PretiacException",
                                    message |-> CheckResultError(a)]
              ELSE Dispatch("POST", "process-check-result",
                            CheckResultPayload(a), FALSE,
                            a.suppress_exception, x.status_code, x.text)
    /\ UNCHANGED <<normalization, operation, construction, client, subscription>>

SpecActions == Init /\ [][ProcessCheckResult]_vars

\* the end of the _request call that has just been made
Ended == [outcome |-> outcome', result |-> result', exception |-> exception']

\* the calls of objects.list: one slice on the server's answer and the
\* suppression, one on the arguments that make the url path and the payload,
\* one on a service
ListCalls ==
    [object_type : {"Host"}, name : {"None", "my host"}, attrs : {None},
     filters : {"None"}, filter_vars : {NonePayload}, joins : {"None"},
     suppress_exception : OptionalBool,
     status_code : StatusCodes, text : Bodies]
    \cup
    [object_type : {"Host"}, name : {"None"} \cup Names,
     attrs : {None, Some(<<"address">>)},
     filters : {"None", "host.name == hostname"},
     filter_vars : {NonePayload, Dict({<<"hostname", "XXX">>})},
     joins : Joins, suppress_exception : {"None"},
     status_code : {200}, text : {BodyCreated}]
    \cup
    [object_type : {"Service"}, name : {"None", "Host1!load"},
     attrs : {None}, filters : {"None"}, filter_vars : {NonePayload},
     joins : {"None"}, suppress_exception : {"None"},
     status_code : {200}, text : {BodyCreated}]

\* objects.list
List ==
    /\ construction = "constructed"
    /\ \E x \in ListCalls :
        /\ Dispatch("GET", ListUrlPath(x.object_type, x.name),
                    ListPayload(x.attrs, x.filters, x.filter_vars, x.joins),
                    FALSE, x.suppress_exception, x.status_code, x.text)
        /\ operation' = [method |-> "list", object_type |-> x.object_type,
                         name |-> x.name, end |-> ListEnd(Ended)]
    /\ UNCHANGED <<invocation, normalization, construction, client,
                   subscription>>

GetCalls ==
    [object_type : {"Host"}, name : {"my host"}, attrs : {None},
     joins : {"None"}, suppress_exception : OptionalBool,
     status_code : StatusCodes, text : Bodies]
    \cup
    [object_type : {"Host"}, name : Names,
     attrs : {None, Some(<<"address">>)}, joins : Joins,
     suppress_exception : {"None"}, status_code : {200}, text : {BodyCreated}]
    \cup
    [object_type : {"Service"}, name : {"Host1!load"}, attrs : {None},
     joins : {"None"}, suppress_exception : {"None"},
     status_code : {200}, text : {BodyCreated}]

\* objects.get
Get ==
    /\ construction = "constructed"
    /\ \E x \in GetCalls :
        /\ Dispatch("GET", ListUrlPath(x.object_type, x.name),
                    ListPayload(x.attrs, "None", NonePayload, x.joins),
                    FALSE, x.suppress_exception, x.status_code, x.text)
        /\ operation' = [method |-> "get", object_type |-> x.object_type,
                         name |-> x.name, end |-> GetEnd(ListEnd(Ended))]
    /\ UNCHANGED <<invocation, normalization, construction, client,
                   subscription>>

\* the end of a method that returns what _request returns
RequestEnd(end) ==
    IF end.outcome = "raised"
    THEN [outcome |-> "raised", type |-> end.exception.type]
    ELSE [outcome |-> "returned", part |-> "body", value |-> end.result.value]

CreateCalls ==
    [object_type : {"Host"}, name : {"my host"}, templates : {None},
     attrs : {NonePayload}, suppress_exception : OptionalBool,
     status_code : StatusCodes, text : Bodies]
    \cup
    [object_type : {"Host"}, name : Names,
     templates : {None, Some(<<"generic-host">>)},
     attrs : {NonePayload, Dict({<<"address", "127.0.0.1">>})},
     suppress_exception : {"None"}, status_code : {200}, text : {BodyCreated}]
    \cup
    [object_type : {"Service"}, name : {"Host1!load"}, templates : {None},
     attrs : {NonePayload}, suppress_exception : {"None"},
     status_code : {200}, text : {BodyCreated}]

\* objects.create
Create ==
    /\ construction = "constructed"
    /\ \E x \in CreateCalls :
        /\ Dispatch("PUT", CreateUrlPath(x.object_type, x.name),
                    CreatePayload(x.templates, x.attrs),
                    FALSE, x.suppress_exception, x.status_code, x.text)
        /\ operation' = [method |-> "create", object_type |-> x.object_type,
                         name |-> x.name, end |-> RequestEnd(Ended)]
    /\ UNCHANGED <<invocation, normalization, construction, client,
                   subscription>>

UpdateCalls ==
    [object_type : {"Host"}, name : {"my host"},
     attrs : {Dict({<<"address", "127.0.0.1">>})},
     suppress_exception : OptionalBool,
     status_code : StatusCodes, text : Bodies]
    \cup
    [object_type : {"Host"}, name : Names,
     attrs : {Dict({}), Dict({<<"address", "127.0.0.1">>})},
     suppress_exception : {"None"}, status_code : {200}, text : {BodyCreated}]
    \cup
    [object_type : {"Service"}, name : {"Host1!load"},
     attrs : {Dict({})}, suppress_exception : {"None"},
     status_code : {200}, text : {BodyCreated}]

\* objects.update
Update ==
    /\ construction = "constructed"
    /\ \E x \in UpdateCalls :
        /\ Dispatch("POST", UpdateUrlPath(x.object_type, x.name), x.attrs,
                    FALSE, x.suppress_exception, x.status_code, x.text)
        /\ operation' = [method |-> "update", object_type |-> x.object_type,
                         name |-> x.name, end |-> RequestEnd(Ended)]
    /\ UNCHANGED <<invocation, normalization, construction, client,
                   subscription>>

DeleteCalls ==
    [object_type : {"Host"}, name : {"None", "my host"},
     filters : {"None"}, filter_vars : {NonePayload}, cascade : {TRUE},
     suppress_exception : OptionalBool,
     status_code : StatusCodes, text : Bodies]
    \cup
    [object_type : {"Host"}, name : {"None"} \cup Names,
     filters : {"None", "host.name == hostname"},
     filter_vars : {NonePayload, Dict({<<"hostname", "XXX">>})},
     cascade : BOOLEAN, suppress_exception : {"None"},
     status_code : {200}, text : {BodyCreated}]
    \cup
    [object_type : {"Service"}, name : {"None", "Host1!load"},
     filters : {"None"}, filter_vars : {NonePayload}, cascade : {TRUE},
     suppress_exception : {"None"},
     status_code : {200}, text : {BodyCreated}]

\* objects.delete
Delete ==
    /\ construction = "constructed"
    /\ \E x \in DeleteCalls :
        /\ Dispatch("DELETE", DeleteUrlPath(x.object_type, x.name),
                    DeletePayload(x.filters, x.filter_vars, x.cascade),
                    FALSE, x.suppress_exception, x.status_code, x.text)
        /\ operation' = [method |-> "delete", object_type |-> x.object_type,
                         name |-> x.name, end |-> RequestEnd(Ended)]
    /\ UNCHANGED <<invocation, normalization, construction, client,
                   subscription>>

\* an Optional[bool] argument: left unset, True or False
OptionalFlags == {None, Some(TRUE), Some(FALSE)}

\* bool(flag) of an Optional[bool]
TruthyFlag(flag) == flag = Some(TRUE)

\* assemble_payload: the keyword arguments whose value is not None
assemble_payload(kwargs) ==
    Dict({<<kw[1], kw[2][1]>> : kw \in {k \in kwargs : k[2] # None}})

\* the payload of schedule_downtime
ScheduleDowntimePayload(a) ==
    Dict({<<"type", a.object_type>>, <<"filter", a.filters>>,
          <<"author", "icingaadmin">>, <<"comment", "IPv4 upgrade">>,
          <<"start_time", 1446388806>>, <<"end_time", 1446389806>>,
          <<"duration", 1000>>}
         \cup (IF TruthyPayload(a.filter_vars)
               THEN {<<"filter_vars", a.filter_vars>>} ELSE {})
         \cup (IF TruthyFlag(a.fixed) THEN {<<"fixed", a.fixed[1]>>} ELSE {})
         \cup (IF TruthyFlag(a.all_services)
               THEN {<<"all_services", a.all_services[1]>>} ELSE {})
         \cup (IF TruthyText(a.trigger_name)
               THEN {<<"trigger_name", a.trigger_name[1]>>} ELSE {})
         \cup (IF TruthyText(a.child_options)
               THEN {<<"child_options", a.child_options[1]>>} ELSE {}))

\* the payload of acknowledge_problem
AcknowledgeProblemPayload(a) ==
    Dict({<<"type", a.object_type>>, <<"filter", a.filters>>,
          <<"author", "icingaadmin">>, <<"comment", "Global outage.">>}
         \cup (IF TruthyPayload(a.filter_vars)
               THEN {<<"filter_vars", a.filter_vars>>} ELSE {})
         \cup (IF TruthyNumber(a.expiry)
               THEN {<<"expiry", a.expiry[1]>>} ELSE {})
         \cup (IF TruthyFlag(a.sticky) THEN {<<"sticky", a.sticky[1]>>} ELSE {})
         \cup (IF TruthyFlag(a.notify) THEN {<<"notify", a.notify[1]>>} ELSE {})
         \cup (IF TruthyFlag(a.persistent)
               THEN {<<"persistent", a.persistent[1]>>} ELSE {}))

\* the payload of create_stage
CreateStagePayload(a) ==
    assemble_payload({<<"files", Some(a.files)>>, <<"reload", a.reload>>,
                      <<"activate", a.activate>>})

ScheduleDowntimeCalls ==
    [object_type : {"Host"}, filters : {"host.name == hostname"},
     filter_vars : {NonePayload, Dict({<<"hostname", "XXX">>})},
     fixed : OptionalFlags, all_services : OptionalFlags,
     trigger_name : {None, Some("downtime1")},
     child_options : {None, Some("DowntimeTriggeredChildren")},
     status_code : {200, 404}, text : {BodyCreated}]

\* actions.schedule_downtime
ScheduleDowntime ==
    /\ construction = "constructed"
    /\ \E x \in ScheduleDowntimeCalls :
        /\ Dispatch("POST", "schedule-downtime", ScheduleDowntimePayload(x),
                    FALSE, "None", x.status_code, x.text)
        /\ operation' = [method |-> "schedule_downtime",
                         flags |-> [fixed |-> x.fixed,
                                    all_services |-> x.all_services],
                         end |-> RequestEnd(Ended)]
    /\ UNCHANGED <<invocation, normalization, construction, client,
                   subscription>>

AcknowledgeProblemCalls ==
    [object_type : {"Service"}, filters : {"service.state == state"},
     filter_vars : {NonePayload, Dict({<<"state", 2>>})},
     expiry : {None, Some(0), Some(1446389894)},
     sticky : OptionalFlags, notify : OptionalFlags,
     persistent : OptionalFlags,
     status_code : {200, 404}, text : {BodyCreated}]

\* actions.acknowledge_problem
AcknowledgeProblem ==
    /\ construction = "constructed"
    /\ \E x \in AcknowledgeProblemCalls :
        /\ Dispatch("POST", "acknowledge-problem",
                    AcknowledgeProblemPayload(x),
                    FALSE, "None", x.status_code, x.text)
        /\ operation' = [method |-> "acknowledge_problem",
                         flags |-> [sticky |-> x.sticky, notify |-> x.notify,
                                    persistent |-> x.persistent],
                         end |-> RequestEnd(Ended)]
    /\ UNCHANGED <<invocation, normalization, construction, client,
                   subscription>>

CreateStageCalls ==
    [package_name : {"XXX", "my host"},
     files : {Dict({}), Dict({<<"conf.d/test.conf", "object Host ...">>})},
     reload : OptionalFlags, activate : OptionalFlags,
     suppress_exception : OptionalBool,
     status_code : {200, 404}, text : {BodyCreated}]

\* config.create_stage
CreateStage ==
    /\ construction = "constructed"
    /\ \E x \in CreateStageCalls :
        /\ Dispatch("POST", "stages/" \o _normalize_name(x.package_name),
                    CreateStagePayload(x),
                    FALSE, x.suppress_exception, x.status_code, x.text)
        /\ operation' = [method |-> "create_stage",
                         flags |-> [reload |-> x.reload,
                                    activate |-> x.activate],
                         end |-> RequestEnd(Ended)]
    /\ UNCHANGED <<invocation, normalization, construction, client,
                   subscription>>

FlagsNext == ScheduleDowntime \/ AcknowledgeProblem \/ CreateStage

SpecFlags == Init /\ [][FlagsNext]_vars

\* the command line of "actions send-service-check-result": click hands
\* each option to the parameter of its name, None when the option is absent
CommandLines ==
    [service : {"ping4", "load"},
     host : {"None", "localhost"},
     exit_status : {"None", "0", "2"},
     performance_data : {"None", "", "rta=0.1ms"},
     plugin_output : {"None", "", "PING OK"}]

\* the keyword arguments with which the command calls
\* get_default_client().send_service_check_result
ForwardedArguments(options) ==
    [service |-> options.service,
     host |-> options.host,
     exit_status |-> options.exit_status,
     plugin_output |-> options.performance_data,
     performance_data |-> options.plugin_output]

\* cli.send_service_check_result
SendServiceCheckResultCommand ==
    /\ construction = "constructed"
    /\ \E options \in CommandLines :
        operation' = [method |-> "cli.send_service_check_result",
                      options |-> options,
                      forwarded |-> ForwardedArguments(options)]
    /\ UNCHANGED <<invocation, normalization, construction, client,
                   dispatcher, subscription>>

SpecCli == Init /\ [][SendServiceCheckResultCommand]_vars

ObjectsNext == List \/ Get \/ Create \/ Update \/ Delete

SpecObjects == Init /\ [][ObjectsNext]_vars

\* no client yet
InitClient ==
    /\ construction = "none"
    /\ client = NoClient
    /\ call = NoCall
    /\ sent = NoSent
    /\ posts = 0
    /\ response = NoResponse
    /\ session = "none"
    /\ outcome = "none"
    /\ parsed = FALSE
    /\ result = NoResult
    /\ exception = NoException
    /\ invocation = NoInvocation
    /\ normalization = NoNormalization
    /\ operation = NoOperation
    /\ subscription = [s \in Sub |-> NoSubscription]

\* Client(...) is called with some arguments, next to some config file
Construct ==
    /\ construction = "none"
    /\ \E args \in ClientArgs, file \in ClientConfigFile :
        LET end == __init__(args, file)
        IN /\ client' = end.client
           /\ construction' = IF end.raised = "" THEN "constructed" ELSE "raised"
           /\ exception' = IF end.raised = "" THEN NoException
                           ELSE [type |-> "Icinga2ApiException",
                                 message |-> end.raised]
    /\ UNCHANGED <<endpoint, call, sent, posts, response, session, outcome,
                   parsed, result, subscription>>

\* A client is constructed and, if that succeeded, used for a request.
\* _request keeps nothing from one call to the next (its session is made
\* anew each time), so the first request of a client stands for all.
ClientNext ==
    \/ Construct
    \/ (outcome = "none" /\ Request)

SpecClient == InitClient /\ [][ClientNext]_vars

\* a plausible variant: subscribe is a plain method that sends the
\* subscription request when it is called
SubscribeEager(s) ==
    /\ subscription[s].gen = "none"
    /\ \E status_code \in StatusCodes, text \in Bodies :
        LET resp == [url |-> urljoin(client.url, ""),
                     status_code |-> status_code, text |-> text]
            end == _request(TRUE, "None", resp)
        IN /\ Dispatch("POST", "", SubscribePayload, TRUE, "None",
                       status_code, text)
           /\ subscription' = [subscription EXCEPT
                 ![s].gen = "created", ![s].requests = @ + end.posts]
    /\ UNCHANGED <<endpoint, construction, client>>

\* EventsUrlEndpoint.subscribe(...) is called: a generator object exists,
\* none of its body has run
Subscribe(s) ==
    /\ subscription[s].gen = "none"
    /\ subscription' = [subscription EXCEPT ![s].gen = "created"]
    /\ UNCHANGED <<endpoint, construction, client, dispatcher>>

\* the caller asks for the first element
FirstNext(s) ==
    /\ subscription[s].gen = "created"
    /\ subscription[s].consumer = "active"
    /\ \E status_code \in StatusCodes, text \in Bodies :
        LET resp == [url |-> urljoin(client.url, ""),
                     status_code |-> status_code, text |-> text]
        IN /\ Dispatch("POST", "", SubscribePayload, TRUE, "None",
                       status_code, text)
           /\ subscription' = [subscription EXCEPT
                 ![s] = StartBody(@, resp, _request(TRUE, "None", resp))]
    /\ UNCHANGED <<endpoint, construction, client>>

\* the caller asks for the first element and session.post raises: no
\* connection to the server, nothing catches the error on its way to the
\* caller of next()
FirstNextFails(s) ==
    /\ subscription[s].gen = "created"
    /\ subscription[s].consumer = "active"
    /\ call' = [method |-> "POST", url_path |-> "",
                payload |-> SubscribePayload, stream |-> TRUE,
                suppress_exception |-> "None"]
    /\ sent' = post(_create_session("POST"),
                    request_args(urljoin(client.url, ""), SubscribePayload,
                                 TRUE))
    /\ posts' = 1
    /\ response' = NoResponse
    /\ session' = "open"
    /\ outcome' = "raised"
    /\ parsed' = FALSE
    /\ result' = NoResult
    /\ exception' = [type |-> "ConnectionError"]
    /\ subscription' = [subscription EXCEPT
            ![s].gen = "finished", ![s].ended = "ConnectionError",
            ![s].requests = @ + 1]
    /\ UNCHANGED <<endpoint, construction, client>>

\* the caller asks for a further element
LaterNext(s) ==
    /\ subscription[s].gen = "suspended"
    /\ subscription[s].consumer = "active"
    /\ subscription' = [subscription EXCEPT ![s] = ResumeBody(@)]
    /\ UNCHANGED <<endpoint, construction, client, dispatcher>>

\* a plausible variant: bytes are fetched ahead while the body stands at its
\* yield
ReadByteAhead(s) ==
    /\ subscription[s].gen \in {"running", "suspended"}
    /\ subscription[s].link = "up"
    /\ Len(subscription[s].read) < MaxRead
    /\ \E char \in Byte :
        subscription' = [subscription EXCEPT ![s] =
            IF subscription[s].gen = "running" THEN LoopBody(@, char)
            ELSE [@ EXCEPT !.read = Append(@, char)]]
    /\ UNCHANGED <<endpoint, construction, client, dispatcher>>

\* iter_content hands over one byte
ReadByte(s) ==
    /\ subscription[s].gen = "running"
    /\ subscription[s].link = "up"
    /\ Len(subscription[s].read) < MaxRead
    /\ \E char \in Byte :
        subscription' = [subscription EXCEPT ![s] = LoopBody(@, char)]
    /\ UNCHANGED <<endpoint, construction, client, dispatcher>>

\* iter_content has nothing more
ReadEnd(s) ==
    /\ subscription[s].gen = "running"
    /\ subscription[s].link = "ended"
    /\ subscription' = [subscription EXCEPT ![s] = StreamExhausted(@)]
    /\ UNCHANGED <<endpoint, construction, client, dispatcher>>

\* iter_content raises
ReadError(s) ==
    /\ subscription[s].gen = "running"
    /\ subscription[s].link = "failed"
    /\ subscription' = [subscription EXCEPT ![s] = StreamRaised(@)]
    /\ UNCHANGED <<endpoint, construction, client, dispatcher>>

\* The connection of a subscription that is being consumed comes to its end.
\* requests reports the end of the body ("ended": the peer finished or closed
\* a body that the close delimits) or raises ("failed": a reset, a chunked
\* body cut short).
ConnectionEnds(s) ==
    /\ subscription[s].gen \in {"running", "suspended"}
    /\ subscription[s].link = "up"
    /\ \E how \in {"ended", "failed"} :
        subscription' = [subscription EXCEPT ![s].link = how]
    /\ UNCHANGED <<endpoint, construction, client, dispatcher>>

\* the caller keeps the generator and asks for nothing more
Abandon(s) ==
    /\ subscription[s].gen \in {"created", "suspended"}
    /\ subscription[s].consumer = "active"
    /\ subscription' = [subscription EXCEPT ![s].consumer = "gone"]
    /\ UNCHANGED <<endpoint, construction, client, dispatcher>>

\* the caller closes the generator it is not inside of
Close(s) ==
    /\ subscription[s].gen \in {"created", "suspended"}
    /\ subscription' = [subscription EXCEPT ![s] = CloseGenerator(@)]
    /\ UNCHANGED <<endpoint, construction, client, dispatcher>>

\* a plausible variant: a generator that has ended starts over
ExhaustedNextRestarts(s) ==
    /\ subscription[s].gen = "finished"
    /\ subscription[s].consumer = "active"
    /\ subscription' = [subscription EXCEPT ![s].asked_after_end = TRUE,
                                            ![s].gen = "created",
                                            ![s].ended = "no"]
    /\ UNCHANGED <<endpoint, construction, client, dispatcher>>

\* the caller asks for an element of a generator whose body has ended: the
\* interpreter raises StopIteration and runs nothing of the body
ExhaustedNext(s) ==
    /\ subscription[s].gen = "finished"
    /\ subscription[s].consumer = "active"
    /\ subscription' = [subscription EXCEPT ![s].asked_after_end = TRUE]
    /\ UNCHANGED <<endpoint, construction, client, dispatcher>>

\* No statement of the program closes the response or the session of a
\* subscription.  Once the body has ended its frame is gone, and with it the
\* local variable stream: the interpreter may then finalize the response,
\* which closes the connection.  When it does so, if ever, is up to the
\* interpreter and to what else refers to the response.
Finalize(s) ==
    /\ subscription[s].gen = "finished"
    /\ subscription[s].conn = "open"
    /\ subscription' = [subscription EXCEPT ![s].conn = "closed"]
    /\ UNCHANGED <<endpoint, construction, client, dispatcher>>

\* one event subscription
StreamNext ==
    \/ Subscribe(1)
    \/ FirstNext(1)
    \/ FirstNextFails(1)
    \/ LaterNext(1)
    \/ ReadByte(1)
    \/ ReadEnd(1)
    \/ ReadError(1)
    \/ ConnectionEnds(1)
    \/ Abandon(1)
    \/ Close(1)
    \/ Finalize(1)
    \/ ExhaustedNext(1)

SpecStream == Init /\ [][StreamNext]_vars

\* the bytes all subscriptions have read
RECURSIVE ReadBy(_)
ReadBy(subs) ==
    IF subs = {} THEN 0
    ELSE LET s == CHOOSE t \in subs : TRUE
         IN Len(subscription[s].read) + ReadBy(subs \ {s})

\* two event subscriptions of one client, consumed in any interleaving
StreamsNext ==
    \E s \in Sub :
        \/ Subscribe(s)
        \/ FirstNext(s)
        \/ FirstNextFails(s)
        \/ LaterNext(s)
        \/ (ReadBy(Sub) < MaxReadBoth /\ ReadByte(s))
        \/ ReadEnd(s)
        \/ ReadError(s)
        \/ ConnectionEnds(s)
        \/ Close(s)
        \/ ExhaustedNext(s)

\* the client of the tests, which has no default for suppress_exception
InitStreams == Init /\ client = DefaultClient

SpecStreams == InitStreams /\ [][StreamsNext]_vars

-----------------------------------------------------------------------------
(* Properties of the dispatcher, checked under Spec *)

Called == outcome # "none"

ErrorStatus == ~(response.status_code \in 200..299)

\* C1: an error status, with suppression unset on the call and on the
\* client, makes _request raise the request exception, which carries the
\* status code, the body text and the parsed body; no value is returned.
C1_ErrorStatusRaises ==
    (Called /\ ErrorStatus /\ call.suppress_exception = "None"
            /\ client.suppress_exception = "None")
    => /\ outcome = "raised"
       /\ result = NoResult
       /\ exception.type = "PretiacRequestException"
       /\ exception.error.status_code = response.status_code
       /\ exception.error.text = response.text
       /\ exception.response = json(response.text)

C1_Witness ==
    /\ outcome = "raised"
    /\ call.suppress_exception = "None"
    /\ client.suppress_exception = "None"
    /\ response.status_code = 404
    /\ exception.error.status_code = 404
    /\ exception.error.text = BodyNotFound
    /\ exception.response.error = 404

\* C2: a non-streaming call with suppress_exception=True answered by an
\* error status does not raise and returns the parsed body of the answer.
C2_SuppressedErrorReturnsBody ==
    (Called /\ ErrorStatus /\ ~call.stream /\ call.suppress_exception = "True")
    => /\ outcome = "returned"
       /\ exception = NoException
       /\ result = [kind |-> "json", value |-> json(response.text)]

C2_Witness ==
    /\ outcome = "returned"
    /\ ~call.stream
    /\ call.suppress_exception = "True"
    /\ response.status_code = 404
    /\ response.text = BodyNotFound
    /\ result.kind = "json"
    /\ result.value.error = 404
    /\ result.value.status = "No objects found."

\* the resolution the claim describes: the call's flag if it is set, else
\* the client's if it is set, else no suppression
Suppressed ==
    CASE call.suppress_exception = "True" -> TRUE
      [] call.suppress_exception = "False" -> FALSE
      [] OTHER -> (CASE client.suppress_exception = "True" -> TRUE
                     [] client.suppress_exception = "False" -> FALSE
                     [] OTHER -> FALSE)

\* C3: whether a call raises on an error status follows the three-valued
\* resolution: call flag first, then client default, then not suppressed.
\* Per-call False with client default True raises; both unset raises.
C3_SuppressionResolution ==
    Called =>
        /\ (outcome = "raised") <=> (ErrorStatus /\ ~Suppressed)
        /\ (ErrorStatus /\ call.suppress_exception = "False"
                /\ client.suppress_exception = "True") => outcome = "raised"
        /\ (ErrorStatus /\ call.suppress_exception = "None"
                /\ client.suppress_exception = "None") => outcome = "raised"

C3_Witness ==
    /\ outcome = "raised"
    /\ call.suppress_exception = "False"
    /\ client.suppress_exception = "True"
    /\ response.status_code = 500

\* C4: a non-streaming call answered by a status in [200,299], suppression
\* unset, returns the parsed body and does not raise.
C4_SuccessReturnsBody ==
    (Called /\ ~ErrorStatus /\ ~call.stream /\ call.suppress_exception = "None"
            /\ client.suppress_exception = "None")
    => /\ outcome = "returned"
       /\ exception = NoException
       /\ result = [kind |-> "json", value |-> json(response.text)]

C4_Witness ==
    /\ outcome = "returned"
    /\ ~call.stream
    /\ call.suppress_exception = "None"
    /\ client.suppress_exception = "None"
    /\ response.status_code = 200
    /\ response.text = BodyCreated
    /\ result.kind = "json"
    /\ result.value.results[1].code = 200

\* C9: a call with stream=True that returns hands back the response itself,
\* has parsed no body and has left its session open; a call with
\* stream=False that returns a body has closed its session.
C9_StreamLeavesSessionOpen ==
    outcome = "returned" =>
        IF call.stream
        THEN session = "open" /\ ~parsed /\ result.kind = "response"
        ELSE session = "closed" /\ result.kind = "json"

C9_Witness ==
    /\ outcome = "returned"
    /\ call.stream
    /\ session = "open"
    /\ result.kind = "response"
    /\ response.status_code = 200

-----------------------------------------------------------------------------
(* Properties of the event stream reader, checked under SpecStream *)

\* the messages of a byte sequence that a newline terminates, in order
RECURSIVE SplitLines(_, _)
SplitLines(bytes, current) ==
    IF bytes = <<>> THEN <<>>
    ELSE IF Head(bytes) = NL
    THEN <<current>> \o SplitLines(Tail(bytes), <<>>)
    ELSE SplitLines(Tail(bytes), Append(current, Head(bytes)))

CompleteLines(bytes) == SplitLines(bytes, <<>>)

\* the bytes after the last newline of a byte sequence
RECURSIVE Unterminated(_)
Unterminated(bytes) ==
    IF bytes = <<>> \/ bytes[Len(bytes)] = NL THEN <<>>
    ELSE Append(Unterminated(SubSeq(bytes, 1, Len(bytes) - 1)), bytes[Len(bytes)])

Undecodable(lines) == {i \in 1..Len(lines) : ~Decodable(lines[i])}

\* C5 as claimed: one element per newline read, each element being the
\* bytes read since the previous newline, in the order of arrival.
C5_ElementsAreTheBytes ==
    \A s \in Sub :
        subscription[s].yielded = CompleteLines(subscription[s].read)

\* C5 as amended: one element per newline read, in the order of arrival and
\* with nothing else, each element being the unicode_escape decoding of the
\* bytes read since the previous newline; a message that does not decode
\* yields nothing and ends the sequence with a decode error at its newline.
C5_ElementsAreDecodedLines ==
    \A s \in Sub :
        LET st == subscription[s]
            lines == CompleteLines(st.read)
        IN /\ \A i \in 1..Len(st.yielded) :
                i <= Len(lines) /\ st.yielded[i] = unicode_escape(lines[i])
           /\ Undecodable(lines) = {} => Len(st.yielded) = Len(lines)
           /\ Undecodable(lines) # {} =>
                /\ Undecodable(lines) = {Len(lines)}
                /\ Len(st.yielded) = Len(lines) - 1
                /\ st.gen = "finished"
                /\ st.ended = "UnicodeDecodeError"

C5_Witness ==
    \E s \in Sub :
        /\ subscription[s].read = <<"{", NL, "\\", "n", NL>>
        /\ subscription[s].yielded = << <<"{">>, <<NL>> >>
        /\ subscription[s].gen = "suspended"

\* C6: every element yielded so far is a message that a newline followed on
\* the wire; what was read after the last newline is in no element, also
\* once the stream has ended or failed.
C6_OnlyTerminatedMessages ==
    \A s \in Sub :
        LET st == subscription[s]
            lines == CompleteLines(st.read)
        IN /\ Len(st.yielded) <= Len(lines)
           /\ \A i \in 1..Len(st.yielded) :
                i <= Len(lines) => st.yielded[i] = unicode_escape(lines[i])
           /\ (st.gen = "finished" /\ Unterminated(st.read) # <<>>)
                => Len(st.yielded) = Len(lines)

C6_Witness ==
    \E s \in Sub :
        /\ subscription[s].gen = "finished"
        /\ subscription[s].ended = "StopIteration"
        /\ subscription[s].read = <<"n", NL, "{">>
        /\ subscription[s].message = <<"{">>
        /\ subscription[s].yielded = << <<"n">> >>

\* C7 as claimed: one complete message, part of a second, then the
\* connection comes to its end: exactly the complete message was yielded
\* and the sequence ended with an error, not with a normal end.
C7_TruncatedStreamEndsWithError ==
    \A s \in Sub :
        LET st == subscription[s]
            lines == CompleteLines(st.read)
        IN (/\ st.gen = "finished"
            /\ st.link # "up"
            /\ st.ended \in {"StopIteration", "ConnectionError"}
            /\ st.status_code \in 200..299
            /\ Len(lines) = 1
            /\ lines[1] # <<>>
            /\ Decodable(lines[1])
            /\ Unterminated(st.read) # <<>>)
           => /\ st.yielded = <<unicode_escape(lines[1])>>
              /\ st.ended # "StopIteration"

\* C8: once the connection of a subscription has failed, no element is
\* yielded any more, the sequence never ends as if it were exhausted, and
\* the request for the next element ends the sequence with the error.
C8_FailureSurfacesAsError ==
    [][\A s \in Sub :
        subscription[s].link = "failed" =>
            /\ subscription'[s].yielded = subscription[s].yielded
            /\ subscription'[s].ended # "StopIteration"
            /\ (subscription[s].gen = "running" /\ subscription'[s].gen # "running")
                => /\ subscription'[s].gen = "finished"
                   /\ subscription'[s].ended = "ConnectionError"]_vars

C8_Witness ==
    \E s \in Sub :
        /\ subscription[s].link = "failed"
        /\ subscription[s].gen = "finished"
        /\ subscription[s].ended = "ConnectionError"
        /\ subscription[s].yielded = << <<"{">> >>
        /\ subscription[s].message = <<"n">>

\* C10 as claimed: when the caller has closed the generator or walked away
\* from it, the connection made for the subscription is closed.
C10_CancelClosesConnection ==
    \A s \in Sub :
        ((subscription[s].ended = "GeneratorExit" \/ subscription[s].consumer = "gone")
            /\ subscription[s].conn # "none"
            /\ subscription[s].status_code \in 200..299)
        => subscription[s].conn = "closed"

\* C11: bytes are read only while the caller is inside next(); an element
\* is yielded right at the newline that ends it, with no byte read beyond
\* it; while the caller is not asking, nothing is read and the connection
\* is not closed.
C11_ReadsInLockstep ==
    /\ [](\A s \in Sub :
            subscription[s].gen = "suspended" =>
                /\ subscription[s].read # <<>>
                /\ subscription[s].read[Len(subscription[s].read)] = NL
                /\ Len(subscription[s].yielded)
                     = Len(CompleteLines(subscription[s].read)))
    /\ [][\A s \in Sub :
            /\ subscription'[s].read # subscription[s].read
                 => subscription[s].gen = "running"
            /\ subscription'[s].yielded # subscription[s].yielded
                 => /\ subscription[s].gen = "running"
                    /\ subscription'[s].gen = "suspended"
            /\ subscription[s].gen \in {"created", "suspended"}
                 => subscription'[s].read = subscription[s].read
            /\ (/\ subscription[s].gen \in {"created", "suspended"}
                /\ \/ subscription'[s].gen = subscription[s].gen
                   \/ subscription'[s].ended = "GeneratorExit")
                 => subscription'[s].conn = subscription[s].conn]_vars

C11_Witness ==
    \E s \in Sub :
        /\ subscription[s].gen = "suspended"
        /\ subscription[s].consumer = "gone"
        /\ subscription[s].read = <<"{", NL>>
        /\ subscription[s].yielded = << <<"{">> >>
        /\ subscription[s].conn = "open"

-----------------------------------------------------------------------------
(* Properties of the session and of the request that goes out, checked     *)
(* under SpecClient                                                        *)

\* C12: the request of every call carries the credentials of exactly one
\* mode, the first that the client has: certificate and key as a pair, else
\* the certificate alone, else user name and password as basic auth, else
\* nothing.
C12_AuthModeByPriority ==
    Called =>
        IF Truthy(client.certificate) /\ Truthy(client.key)
        THEN /\ sent.cert = [py |-> "tuple",
                             files |-> <<client.certificate, client.key>>]
             /\ sent.auth = NoAuth
        ELSE IF Truthy(client.certificate)
        THEN /\ sent.cert = [py |-> "str", files |-> <<client.certificate>>]
             /\ sent.auth = NoAuth
        ELSE IF Truthy(client.api_user) /\ Truthy(client.password)
        THEN /\ sent.cert = NoCert
             /\ sent.auth = <<client.api_user, client.password>>
        ELSE /\ sent.cert = NoCert
             /\ sent.auth = NoAuth

\* a client with a certificate, a key, a user name and a password has sent a
\* request with the pair and without basic auth
C12_Witness ==
    /\ Called
    /\ client.certificate = "icinga.crt"
    /\ client.key = "icinga.key"
    /\ client.api_user = "apiuser"
    /\ client.password = "password"
    /\ sent.cert = [py |-> "tuple", files |-> <<"icinga.crt", "icinga.key">>]
    /\ sent.auth = NoAuth

RequestMethod == {"GET", "OPTIONS", "HEAD", "POST", "PUT", "PATCH", "DELETE"}

\* C13: every call is sent as a POST whose headers name the verb of the call
\* in upper case, once, under X-HTTP-Method-Override, ask for JSON and carry
\* a User-Agent.
C13_SentAsPostWithOverride ==
    Called =>
        /\ sent.http_method = "POST"
        /\ \E verb \in RequestMethod :
              /\ call.method = verb \/ (call.method = "get" /\ verb = "GET")
              /\ {h \in sent.headers : h[1] = "X-HTTP-Method-Override"}
                   = {<<"X-HTTP-Method-Override", verb>>}
        /\ <<"Accept", "application/json">> \in sent.headers
        /\ \E h \in sent.headers : h[1] = "User-Agent" /\ h[2] # ""

\* a call of the verb DELETE, and a call of a verb in lower case
C13_Witness ==
    /\ Called
    /\ call.method \in {"DELETE", "get"}
    /\ sent.http_method = "POST"
    /\ <<"X-HTTP-Method-Override", upper(call.method)>> \in sent.headers

\* C14: the request of every call verifies the server's certificate against
\* the client's CA certificate if it has one, and does not verify otherwise.
C14_VerifyIsCaOrOff ==
    Called =>
        IF Truthy(client.ca_certificate)
        THEN sent.verify = client.ca_certificate
        ELSE sent.verify = "False"

\* a client without a CA certificate has sent a request
C14_Witness ==
    /\ Called
    /\ ~Truthy(client.ca_certificate)
    /\ sent.verify = "False"

-----------------------------------------------------------------------------
(* Properties of the construction of a client, checked under SpecClient *)

Configured == construction # "none"

C16_ConstructedIsComplete ==
    construction = "constructed" =>
        /\ Truthy(client.url)
        /\ \/ Truthy(client.api_user) /\ Truthy(client.password)
           \/ Truthy(client.certificate)

-----------------------------------------------------------------------------
(* Properties of normalize_state, checked under SpecState *)

\* C17: normalize_state ends with the number of a member of HostState or
\* ServiceState; with an int of 0..3 as it was given (a bool is an int: True
\* is handed back as True); and with an exception for every other value.
C17_NormalizeState ==
    normalization.called =>
        LET state == normalization.state
            end == normalization.end
        IN IF state \in HostState \cup ServiceState
           THEN end.raised = "" /\ end.value = IntOf(state.v)
           ELSE IF state.py \in {"int", "bool"} /\ state.v \in 0..3
           THEN end.raised = "" /\ end.value = state
           ELSE end.raised # ""

\* ServiceState.CRITICAL has given 2
C17_Witness ==
    /\ normalization.called
    /\ normalization.state = Member("ServiceState", "CRITICAL", 2)
    /\ normalization.end = [raised |-> "", value |-> IntOf(2)]

-----------------------------------------------------------------------------
(* Properties of process_check_result, checked under SpecActions *)

ValidState(state) ==
    \/ state \in HostState \cup ServiceState
    \/ state.py \in {"int", "bool"} /\ state.v \in 0..3

ChecksPass(a) ==
    /\ Truthy(a.name) \/ Truthy(a.filter)
    /\ ~(Truthy(a.name) /\ (Truthy(a.filter) \/ TruthyPayload(a.filter_vars)))
    /\ a.type \in {"Host", "Service"}
    /\ ValidState(a.exit_status)

\* C18: a call of process_check_result whose exit_status is no state, whose
\* name and filter are both empty, whose name comes with a filter or with
\* filter_vars, or whose type is neither "Host" nor "Service", raises, and
\* sends no request.
C18_NoRequestUnlessChecksPass ==
    (invocation.called /\ ~ChecksPass(invocation)) =>
        /\ outcome = "raised"
        /\ exception.type = "PretiacException"
        /\ posts = 0
        /\ sent = NoSent

\* a call for a service by name with the exit_status 5 has raised
C18_Witness ==
    /\ invocation.called
    /\ invocation.type = "Service"
    /\ invocation.name = "myhost!ping4"
    /\ invocation.filter = "None"
    /\ invocation.filter_vars = NonePayload
    /\ invocation.exit_status = IntOf(5)
    /\ outcome = "raised"
    /\ posts = 0

OptionKeys ==
    {"performance_data", "check_command", "check_source", "execution_start",
     "execution_end", "ttl"}

\* C19: a call of process_check_result for the type "Service" by name that
\* passes the checks sends one request whose body holds the type, the name
\* under the key "service", the normalized exit_status and the plugin_output,
\* and none of the optional arguments that were not given; when the answer
\* is a 2xx, the call returns the parsed body of the answer.
C19_ServicePayload ==
    (/\ invocation.called
     /\ ChecksPass(invocation)
     /\ invocation.type = "Service"
     /\ Truthy(invocation.name)) =>
        LET items == sent.json.items
            keys == {item[1] : item \in items}
            status == invocation.exit_status
        IN /\ posts = 1
           /\ sent.json.py = "dict"
           /\ {item \in items : item[1] \in {"type", "service", "host", "name"}}
                = {<<"type", "Service">>, <<"service", invocation.name>>}
           /\ {item \in items : item[1] = "exit_status"}
                = {<<"exit_status",
                     IF status.py \in {"int", "bool"} THEN status
                     ELSE IntOf(status.v)>>}
           /\ {item \in items : item[1] = "plugin_output"}
                = {<<"plugin_output", invocation.plugin_output>>}
           /\ \A key \in OptionKeys :
                invocation.options[key] = None => key \notin keys
           /\ {"filter", "filter_vars"} \cap keys = {}
           /\ response.status_code \in 200..299 =>
                /\ outcome = "returned"
                /\ result = [kind |-> "json", value |-> json(response.text)]

\* the check result of the service myhost!ping4, CRITICAL, with no optional
\* argument, was answered with 200
C19_Witness ==
    /\ invocation.called
    /\ invocation.type = "Service"
    /\ invocation.name = "myhost!ping4"
    /\ invocation.exit_status = Member("ServiceState", "CRITICAL", 2)
    /\ invocation.options = NoOptions
    /\ sent.json = Dict({<<"type", "Service">>, <<"service", "myhost!ping4">>,
                         <<"exit_status", IntOf(2)>>,
                         <<"plugin_output", "PING CRITICAL">>})
    /\ response.status_code = 200
    /\ result = [kind |-> "json", value |-> json(BodyCreated)]

-----------------------------------------------------------------------------
(* Properties of the number of requests, checked under SpecStream *)

\* C20: every call of _request has sent exactly one HTTP request, however
\* it ended; a subscription sends its one request at the first next(), and
\* none after that, whatever becomes of its stream.
C20_OneRequestPerDispatch ==
    /\ [](Called => posts = 1)
    /\ [](\A s \in Sub :
            /\ subscription[s].requests <= 1
            /\ (\/ subscription[s].gen \in {"running", "suspended"}
                \/ subscription[s].ended \notin {"no", "GeneratorExit"})
                 => subscription[s].requests = 1)
    /\ [][\A s \in Sub :
            /\ subscription'[s].requests # subscription[s].requests
                 => subscription[s].gen = "created"
            /\ subscription[s].conn = "closed"
                 => subscription'[s].conn = "closed"]_vars

\* a subscription whose stream has ended, after one request
C20_Witness ==
    \E s \in Sub :
        /\ subscription[s].gen = "finished"
        /\ subscription[s].ended = "StopIteration"
        /\ subscription[s].link = "ended"
        /\ subscription[s].requests = 1
        /\ posts = 1

-----------------------------------------------------------------------------
(* Properties of the timeout, checked under SpecClient *)

\* C21: the request of every call without stream of a client that has a
\* timeout is sent with that timeout; the request of a call with stream is
\* sent with none.
C21_TimeoutHonoured ==
    Called =>
        IF Truthy(client.timeout) /\ ~call.stream
        THEN sent.timeout = client.timeout
        ELSE call.stream => sent.timeout = "absent"

-----------------------------------------------------------------------------
(* Properties of subscriptions side by side, checked under SpecStreams *)

C23_NotRestartable ==
    /\ [][\A s \in Sub :
            subscription[s].gen = "finished" =>
                /\ subscription'[s].gen = "finished"
                /\ subscription'[s].ended = subscription[s].ended
                /\ subscription'[s].yielded = subscription[s].yielded
                /\ subscription'[s].read = subscription[s].read
                /\ subscription'[s].requests = subscription[s].requests]_vars
    /\ [](\A s \in Sub :
            subscription[s].read # <<>> => subscription[s].requests = 1)

\* the first subscription has ended and was asked for more; the second one,
\* after a request of its own, has yielded an element
C23_Witness ==
    /\ subscription[1].gen = "finished"
    /\ subscription[1].ended = "StopIteration"
    /\ subscription[1].asked_after_end
    /\ subscription[1].yielded = << <<>> >>
    /\ subscription[2].requests = 1
    /\ subscription[2].yielded = << <<>> >>



\* C24: objects.list returns the value under the key "results" when the
\* response body has that key and otherwise the whole body; a query that
\* matches no object (answer 404 with the error body) raises the
\* request-failure error when exceptions are thrown, and when they are
\* suppressed returns the error body with its code 404 and status message.
C24_ListReturnsResultsOrBody ==
    operation.method = "list" =>
        LET body == json(response.text)
            throwing == _throw_exception(call.suppress_exception)
        IN /\ (throwing /\ ~StatusOk(response.status_code))
                => /\ operation.end.outcome = "raised"
                   /\ operation.end.type = "PretiacRequestException"
           /\ ~(throwing /\ ~StatusOk(response.status_code))
                => /\ operation.end.outcome = "returned"
                   /\ operation.end.value =
                        IF "results" \in DOMAIN body
                        THEN body.results ELSE body
           /\ (~throwing /\ response.status_code = 404
                    /\ response.text = BodyNotFound)
                => operation.end.value =
                        [error |-> 404, status |-> "No objects found."]

C24_Witness ==
    /\ operation.method = "list"
    /\ call.suppress_exception = "True"
    /\ response.status_code = 404
    /\ response.text = BodyNotFound
    /\ operation.end.outcome = "returned"
    /\ operation.end.value.error = 404

\* C29: list, get, create, update and delete put the same percent-encoded
\* form of the object's name in the url path.
C29_SameEncodedNameInPath ==
    (operation.method \in {"list", "get", "create", "update", "delete"}
        /\ Truthy(operation.name))
    => call.url_path =
            pluralize_to_lower_object_type_name(operation.object_type)
                \o "/" \o _normalize_name(operation.name)

\* C25: whenever a dispatch ends by raising the request-failure error, the
\* session it created has been closed, with stream set or not.
C25_SessionClosedOnRaise ==
    (outcome = "raised" /\ exception.type = "PretiacRequestException")
        => session = "closed"

\* C26: subscribe yields elements only from a response with a status in
\* 200..299: after any other answer to the subscription request no element
\* is yielded, whatever the client's default suppression.
C26_YieldsOnlyFromSuccess ==
    \A s \in Sub :
        subscription[s].yielded # <<>> => StatusOk(subscription[s].status_code)

\* C27: calling subscribe sends no request; the subscription request is
\* sent exactly once, when the caller asks for the first element, and its
\* failure (a connection error or an error status that is not suppressed)
\* ends that first request for an element, before any byte is read.
C27_RequestAtFirstNext ==
    /\ [](\A s \in Sub :
            LET st == subscription[s]
            IN /\ st.requests <= 1
               /\ st.gen \in {"none", "created"}
                    => (st.requests = 0 /\ st.ended = "no")
               /\ st.gen \in {"running", "suspended"} => st.requests = 1
               /\ (st.ended = "PretiacRequestException"
                    \/ (st.ended = "ConnectionError" /\ st.status_code = 0))
                    => /\ st.requests = 1
                       /\ st.read = <<>>
                       /\ st.yielded = <<>>)
    /\ [][\A s \in Sub :
            /\ (subscription[s].gen = "none"
                    /\ subscription'[s].gen # "none")
                => (subscription'[s].gen = "created"
                        /\ dispatcher' = dispatcher)
            /\ subscription'[s].requests # subscription[s].requests
                => /\ subscription[s].gen = "created"
                   /\ subscription[s].consumer = "active"
                   /\ subscription'[s].gen \in {"running", "finished"}
                   /\ posts' = 1
                   /\ sent'.stream = "True"]_vars

C27_Witness ==
    /\ subscription[1].gen = "finished"
    /\ subscription[1].ended = "ConnectionError"
    /\ subscription[1].status_code = 0
    /\ subscription[1].requests = 1
    /\ outcome = "raised"
    /\ exception.type = "ConnectionError"

\* C28: schedule_downtime, acknowledge_problem and create_stage put every
\* boolean flag the caller gave, True or False, in the payload of the
\* request; a flag is absent from it only when the caller left it unset.
C28_ExplicitFlagsAreSent ==
    operation.method \in {"schedule_downtime", "acknowledge_problem",
                          "create_stage"}
    => \A flag \in DOMAIN operation.flags :
        IF operation.flags[flag] = None
        THEN \A item \in sent.json.items : item[1] # flag
        ELSE <<flag, operation.flags[flag][1]>> \in sent.json.items

\* C30: the command send_service_check_result hands each option to the
\* client parameter of the same meaning: --plugin-output as plugin_output,
\* --performance-data as performance_data, and service, host and
\* exit_status unchanged.
C30_OptionsForwardedByMeaning ==
    operation.method = "cli.send_service_check_result"
    => /\ operation.forwarded.plugin_output = operation.options.plugin_output
       /\ operation.forwarded.performance_data
            = operation.options.performance_data
       /\ operation.forwarded.service = operation.options.service
       /\ operation.forwarded.host = operation.options.host
       /\ operation.forwarded.exit_status = operation.options.exit_status
====
